---------------------------- MODULE Spec2Model ----------------------------
(***************************************************************************)
(* Model of the local RAG chatbot (mark041002/Chatbot).                    *)
(*                                                                         *)
(*  - ChatHandlerADK.antwort_generieren (src/src/backend/chat_handler.py)  *)
(*    driven by the Streamlit front end (src/src/main.py): one turn is a   *)
(*    walk through the handler, every call to the vector store or to the   *)
(*    generation backend being one step with a nondeterministic outcome.   *)
(*  - the FastAPI chat endpoint (src/src/backend/api_server.py) on top of  *)
(*    the SQLite chat history (src/src/backend/chat_history.py).           *)
(*                                                                         *)
(* A query is the sequence of its whitespace separated words.  Umlauts of  *)
(* the source's keyword lists are written ae/oe/ue.  The words used in     *)
(* queries are chosen so that Python's substring test `kw in query` is a   *)
(* match of consecutive words, except that a tag word "#name" contains     *)
(* the word "name" (see WortEnthaelt).                                     *)
(***************************************************************************)
EXTENDS Naturals, Sequences, FiniteSets

VARIABLES
    docs,           \* vektor_store: names of the indexed documents
    nachrichten,    \* st.session_state.nachrichten (Streamlit history)
    pc,             \* position of the running turn
    query,          \* the turn's query (benutzer_eingabe)
    intent,         \* branch chosen by antwort_generieren
    dokument_name,  \* target document of _antwort_mit_dokumenten
    genLog,         \* generation calls issued in the turn, in order
    retLog,         \* vector store calls issued in the turn, in order
    ergebnisse,     \* hits held by the turn (search_result["ergebnisse"])
    result,         \* dict returned by antwort_generieren
    verlauf0,       \* the Streamlit history as it was when the turn began
    sessions,       \* table chat_sessions: set of session ids
    messages,       \* table chat_messages: rows in insertion (id) order
    uuids,          \* number of session ids handed out by uuid4 so far
    apiLast,        \* outcome of the last /api/chat request
    uhr,            \* what datetime.now() reads
    histLast,       \* the last delete_session or get_session and what it returned
    model,          \* ChatHandlerADK.model of the shared handler
    llm_model_name, \* OllamaLLM._model_name, the name a request carries
    swPc,           \* position of a running model_wechseln
    swLast,         \* the last request to switch the model and its status
    text,           \* the text handed to text_chunken, a sequence of characters
    chunk_groesse,  \* DokumentProcessor.chunk_groesse
    chunks,         \* the list text_chunken returned
    ipc,            \* "bereit" before text_chunken ran, "fertig" after
    pdfLast,        \* the last call of pdf_verarbeiten and what it returned
    verarbeitung    \* the last call of dokument_verarbeiten and what it returned

vars == <<docs, nachrichten, pc, query, intent, dokument_name, genLog, retLog,
          ergebnisse, result, verlauf0, sessions, messages, uuids, apiLast,
          uhr, histLast,
          model, llm_model_name, swPc, swLast, text, chunk_groesse, chunks, ipc, pdfLast,
          verarbeitung>>

turnVars == <<pc, query, intent, dokument_name, genLog, retLog, ergebnisse,
              result, verlauf0>>
apiVars == <<sessions, messages, uuids, apiLast, uhr, histLast>>
modelVars == <<model, llm_model_name, swPc, swLast>>
ingestVars == <<text, chunk_groesse, chunks, ipc, pdfLast, verarbeitung>>

-----------------------------------------------------------------------------
(* Bounds of the model *)

MaxPad == 4            \* filler words appended to a query
MaxHits == 2           \* hits one search returns
MaxNachrichten == 2    \* cap of the Streamlit history
MaxSessions == 2       \* session ids the store hands out
MaxMessages == 3       \* cap of the rows of chat_messages
MaxText == 6           \* characters of a text handed to text_chunken
MaxGroesse == 7        \* largest chunk_groesse
MaxSeiten == 2         \* pages of a PDF
MaxZeit == 1           \* latest reading of the clock

None == "<None>"

-----------------------------------------------------------------------------
(* Words and queries *)

DocNames == {"Report", "notes"}

\* sorted(list(dokumente)): Python orders "Report" before "notes"
DocOrder == <<"Report", "notes">>

Tags == {"#Report", "#notes"}

\* group(1) of r'#(\w+)' for a tag word
TagName(w) == IF w = "#Report" THEN "Report" ELSE "notes"

\* str.lower() of one word
Lower(w) ==
    CASE w = "Report" -> "report"
      [] w = "#Report" -> "#report"
      [] OTHER -> w

\* query.lower()
Klein(q) == [i \in 1..Len(q) |-> Lower(q[i])]

\* a lowercased query word w contains the lowercased word k as a substring
WortEnthaelt(w, k) == w = k \/ w = "#" \o k

\* kw in query_lower, kw a sequence of words
Enthaelt(q, kw) ==
    \E i \in 1..Len(q) :
        /\ i + Len(kw) - 1 <= Len(q)
        /\ \A j \in 1..Len(kw) :
              IF Len(kw) = 1 THEN WortEnthaelt(q[i + j - 1], kw[j])
                             ELSE q[i + j - 1] = kw[j]

\* query_lower.startswith(kw)
BeginntMit(q, kw) == Len(q) >= Len(kw) /\ SubSeq(q, 1, Len(kw)) = kw

faehigkeiten_keywords == {
    <<"was", "kannst", "du">>, <<"was", "kann", "der", "bot">>,
    <<"deine", "faehigkeiten">>, <<"was", "bietest", "du">>,
    <<"hilfe">>, <<"was", "machst", "du">>, <<"funktionen">>,
    <<"moeglichkeiten">>, <<"was", "geht">>, <<"features">>,
    <<"koennen", "sie">>, <<"was", "ist", "moeglich">> }

dokument_keywords == {
    <<"in", "den", "dokumenten">>, <<"im", "dokument">>,
    <<"in", "meinen", "dateien">>, <<"laut", "dokument">>,
    <<"steht", "geschrieben">>, <<"im", "text">>,
    <<"was", "sagt">>, <<"findest", "du">>, <<"suche", "nach">>,
    <<"welche", "informationen">>, <<"was", "steht", "ueber">>,
    <<"erklaere", "aus">> }

\* step 5 of _braucht_dokumentensuche
verfuegbar_phrasen == {
    <<"welche", "dokumente">>, <<"was", "fuer", "dokumente">>,
    <<"verfuegbare", "dokumente">>, <<"dokumente", "sind">>,
    <<"dateien", "hast", "du">>, <<"was", "ist", "verfuegbar">> }

\* the phrases of _antwort_mit_dokumenten
auflisten_phrasen == {
    <<"welche", "dokumente">>, <<"verfuegbare", "dokumente">>,
    <<"dokumente", "sind">> }

allgemeine_fragen == {
    <<"wie", "geht">>, <<"was", "machst", "du">>, <<"hallo">>, <<"hi">>,
    <<"guten", "tag">>, <<"wie", "funktioniert">>, <<"was", "ist">>,
    <<"erklaere", "mir">>, <<"kannst", "du">>, <<"hilf", "mir">>,
    <<"was", "sind">>, <<"warum">>, <<"weshalb">>, <<"wieso">> }

\* len(query.split()) > 5
WortSchwelle == 5

Pad(n) == [i \in 1..n |-> "x"]

Phrasen == {
    <<"was", "kannst", "du">>, <<"#Report">>, <<"#notes">>, <<"report">>,
    <<"suche", "nach">>, <<"welche", "dokumente">>,
    <<"was", "ist", "verfuegbar">>, <<"was", "ist">>, <<"vorher">> }

Koepfe == {<<>>} \cup Phrasen \cup {p \o r : p \in Phrasen, r \in Phrasen}

Queries == {k \o Pad(n) : k \in Koepfe, n \in 0..MaxPad} \ {<<>>}

-----------------------------------------------------------------------------
(* Query classifier: chat_handler.py, _ist_faehigkeiten_frage,             *)
(* _braucht_dokumentensuche, _scheint_spezifisch, dokument_referenz_parsen *)

_ist_faehigkeiten_frage(q) ==
    \E kw \in faehigkeiten_keywords : Enthaelt(Klein(q), kw)

HatTag(q) == \E i \in 1..Len(q) : q[i] \in Tags

\* re.search(r'#(\w+)', query).group(1): the leftmost tag
ErsterTag_Letzter(q) ==
    LET i == CHOOSE k \in 1..Len(q) :
                 q[k] \in Tags /\ \A m \in (k + 1)..Len(q) : q[m] \notin Tags
    IN TagName(q[i])

ErsterTag(q) ==
    LET i == CHOOSE k \in 1..Len(q) :
                 q[k] \in Tags /\ \A m \in 1..(k - 1) : q[m] \notin Tags
    IN TagName(q[i])

_scheint_spezifisch_OhneContinue(q) ==
    IF \E a \in allgemeine_fragen : BeginntMit(Klein(q), a)
    THEN FALSE
    ELSE Len(q) > WortSchwelle

_scheint_spezifisch(q) ==
    IF \E a \in allgemeine_fragen : BeginntMit(Klein(q), a) /\ ~(Len(q) > 3)
    THEN FALSE
    ELSE Len(q) > WortSchwelle

\* verfuegbare_dokumente_auflisten(): the sorted names
Sortiert(D) == SelectSeq(DocOrder, LAMBDA d : d \in D)

\* steps 3 to 6 of _braucht_dokumentensuche, liste the listing of step 2
BrauchtSucheNachListe(q, liste) ==
    LET ql == Klein(q)
        treffer == SelectSeq(liste, LAMBDA d : Enthaelt(ql, <<Lower(d)>>))
    IN IF treffer # <<>> THEN <<TRUE, Head(treffer)>>
       ELSE IF \E kw \in dokument_keywords : Enthaelt(ql, kw) THEN <<TRUE, None>>
       ELSE IF \E ph \in verfuegbar_phrasen : Enthaelt(ql, ph) THEN <<TRUE, None>>
       ELSE IF _scheint_spezifisch(q) THEN <<TRUE, None>>
       ELSE <<FALSE, None>>

\* re.sub(r'#\w+\s*', '', nachricht).strip()
Bereinigt(q) == SelectSeq(q, LAMBDA w : w \notin Tags)

dokument_referenz_parsen(q) ==
    IF HatTag(q) THEN <<ErsterTag(q), Bereinigt(q)>> ELSE <<None, q>>

\* the query and the target _antwort_mit_dokumenten works with (lines 447-448)
AmdName(q, name) == IF name = None THEN dokument_referenz_parsen(q)[1] ELSE name
AmdQuery(q, name) == IF name = None THEN dokument_referenz_parsen(q)[2] ELSE q

IstAuflistenFrage(q) == \E ph \in auflisten_phrasen : Enthaelt(Klein(q), ph)

\* where _antwort_mit_dokumenten makes its first call (lines 451-471)
AmdEintritt(q, name) ==
    IF IstAuflistenFrage(AmdQuery(q, name)) THEN "liste_tool"
    ELSE IF AmdName(q, name) # None THEN "suche_dokument"
    ELSE "suche_allgemein"

-----------------------------------------------------------------------------
(* Results and external outcomes *)

NoIntent == [art |-> "-", ziel |-> None]
NoResult == [antwort |-> "-"]

\* an error dict that carries only the text and the flag
FehlerErgebnis_OhneListen ==
    [antwort |-> "Fehler bei der Antwort-Generierung", success |-> FALSE]

\* the except branch of antwort_generieren: a dict without "modus"
FehlerErgebnis ==
    [antwort |-> "Fehler bei der Antwort-Generierung", quellen |-> <<>>,
     verwendete_tools |-> <<>>, success |-> FALSE]

Ergebnis(a, q, t, m) ==
    [antwort |-> a, quellen |-> q, verwendete_tools |-> t, success |-> TRUE,
     modus |-> m]

\* result.get("modus", "unknown")
Modus(r) == IF "modus" \in DOMAIN r THEN r.modus ELSE "unknown"

\* what one search of the vector store can return: up to MaxHits raw hits
\* {'dokument', 'text', 'distance', 'chunk_index'}, distance in hundredths
RohTreffer(d) == [dokument |-> d, distance |-> 25]
TrefferFolgen(D) ==
    UNION {[1..n -> {RohTreffer(d) : d \in D}] : n \in 0..MaxHits}

\* lines 53-59: the hits as the tool hands them on, relevanz = 1 - distance
Formatiert(roh) ==
    [i \in 1..Len(roh) |->
        [dokument |-> roh[i].dokument, relevanz |-> 100 - roh[i].distance]]

\* _format_search_results reads ergebnis['relevanz'] of every hit
FormatSearchResultsOk(erg) == \A i \in 1..Len(erg) : "relevanz" \in DOMAIN erg[i]

\* the documents of the hits without the test of line 478
Quellen_OhneDedup(erg) == [i \in 1..Len(erg) |-> erg[i].dokument]

\* lines 477-479: the deduplicated sources in order of first appearance
Quellen(erg) ==
    LET F[i \in 0..Len(erg)] ==
          IF i = 0 THEN <<>>
          ELSE IF \E j \in 1..Len(F[i - 1]) : F[i - 1][j] = erg[i].dokument
               THEN F[i - 1]
               ELSE Append(F[i - 1], erg[i].dokument)
    IN F[Len(erg)]

\* answers of the generation backend to one POST /api/generate
ModellTexte == {"text", "thinking_text", "toolcall_text"}
GenFehler == {"http_fehler", "verbindungsfehler"}
GenAusgaben == ModellTexte \cup GenFehler \cup {"kein_response"}

\* OllamaLLM.generate_content: the text returned, "raise" when it raises
generate_content(o) ==
    CASE o = "http_fehler" -> "Ollama-Fehler"
      [] o = "verbindungsfehler" -> "Verbindungsfehler zu Ollama"
      [] o = "kein_response" -> "raise"
      [] OTHER -> o

_bereinige_thinking(t) == IF t = "thinking_text" THEN "text" ELSE t

\* after its generate_content call the handler returns; a retry would stay
NachGenerierung_Wiederholen(ort, o) == IF o \in GenFehler THEN ort ELSE "done"

NachGenerierung(ort, o) == "done"

\* one call of the vector store: what was asked, whether it returned (ok) or
\* raised, and how many hits it returned
RetEintrag(op, ziel, anfrage, ok, n) ==
    [op |-> op, ziel |-> ziel, anfrage |-> anfrage, ok |-> ok, treffer |-> n]

\* one POST /api/generate: the json carries self._model_name as it is when
\* the request is built (line 174)
GenEintrag(prompt, o) ==
    [prompt |-> prompt, ausgabe |-> o, model |-> llm_model_name,
     handler_model |-> model, im_wechsel |-> swPc # "idle"]

-----------------------------------------------------------------------------
(* One turn of the Streamlit front end (main.py lines 251-287) through     *)
(* ChatHandlerADK.antwort_generieren                                       *)

TurnReset ==
    /\ pc' = "idle"
    /\ query' = <<>>
    /\ intent' = NoIntent
    /\ dokument_name' = None
    /\ genLog' = <<>>
    /\ retLog' = <<>>
    /\ ergebnisse' = <<>>
    /\ result' = NoResult
    /\ verlauf0' = <<>>

\* the handler returns r
Rueckgabe(r) == result' = r /\ pc' = "done"

\* the handler enters _antwort_mit_dokumenten(query, name)
NachAmd(name) ==
    /\ dokument_name' = AmdName(query, name)
    /\ pc' = AmdEintritt(query, name)

\* main.py 253-263: chat input, ollama_verfuegbar(), the user message is
\* appended and antwort_generieren runs up to its first external call
Eingabe(q, verbunden) ==
    /\ pc = "idle"
    /\ Len(nachrichten) + 2 <= MaxNachrichten
    /\ IF ~verbunden
       THEN UNCHANGED vars
       ELSE /\ nachrichten' = Append(nachrichten, [rolle |-> "user", inhalt |-> q])
            /\ verlauf0' = nachrichten
            /\ query' = q
            /\ IF _ist_faehigkeiten_frage(q)
               THEN /\ intent' = [art |-> "CAPABILITY", ziel |-> None]
                    /\ pc' = "faehigkeiten_liste"
                    /\ dokument_name' = None
               ELSE IF HatTag(q)
               THEN /\ intent' = [art |-> "DOCUMENT_SEARCH", ziel |-> ErsterTag(q)]
                    /\ dokument_name' = AmdName(q, ErsterTag(q))
                    /\ pc' = AmdEintritt(q, ErsterTag(q))
               ELSE /\ intent' = NoIntent
                    /\ pc' = "bds_liste"
                    /\ dokument_name' = None
            /\ UNCHANGED <<docs, genLog, retLog, ergebnisse, result, apiVars, modelVars, ingestVars>>

\* _faehigkeiten_antwort_generieren, line 259: the listing for the help text
FaehigkeitenListe(ok) ==
    /\ pc = "faehigkeiten_liste"
    /\ retLog' = Append(retLog, RetEintrag("auflisten", None, <<>>, ok, IF ok THEN Cardinality(docs) ELSE 0))
    /\ IF ok THEN Rueckgabe(Ergebnis("faehigkeiten_text", <<>>, <<>>, "faehigkeiten"))
             ELSE Rueckgabe(FehlerErgebnis)
    /\ UNCHANGED <<docs, nachrichten, query, intent, dokument_name, genLog,
                   ergebnisse, verlauf0, apiVars, modelVars, ingestVars>>

\* _braucht_dokumentensuche, line 300 and the steps after it; lines 403-406
BdsListe(ok) ==
    /\ pc = "bds_liste"
    /\ retLog' = Append(retLog, RetEintrag("auflisten", None, <<>>, ok, IF ok THEN Cardinality(docs) ELSE 0))
    /\ IF ~ok
       THEN /\ Rueckgabe(FehlerErgebnis)
            /\ UNCHANGED <<intent, dokument_name>>
       ELSE LET bs == BrauchtSucheNachListe(query, Sortiert(docs))
            IN IF bs[1]
               THEN /\ intent' = [art |-> "DOCUMENT_SEARCH", ziel |-> bs[2]]
                    /\ NachAmd(bs[2])
                    /\ UNCHANGED result
               ELSE /\ intent' = [art |-> "NORMAL", ziel |-> None]
                    /\ pc' = "normal_gen"
                    /\ UNCHANGED <<dokument_name, result>>
    /\ UNCHANGED <<docs, nachrichten, query, genLog, ergebnisse, verlauf0, apiVars, modelVars, ingestVars>>

\* _normale_antwort, lines 429-440
NormalGen(o) ==
    /\ pc = "normal_gen"
    /\ genLog' = Append(genLog, GenEintrag("normal", o))
    /\ IF generate_content(o) = "raise"
       THEN Rueckgabe(FehlerErgebnis)
       ELSE /\ result' = Ergebnis(_bereinige_thinking(generate_content(o)),
                                  <<>>, <<>>, "normale_unterhaltung")
            /\ pc' = NachGenerierung("normal_gen", o)
    /\ UNCHANGED <<docs, nachrichten, query, intent, dokument_name, retLog,
                   ergebnisse, verlauf0, apiVars, modelVars, ingestVars>>

\* lines 451-468: DokumentenListeTool.process_llm_request catches its failure
ListeTool(ok) ==
    /\ pc = "liste_tool"
    /\ retLog' = Append(retLog, RetEintrag("dokumente_auflisten", None, <<>>, ok, IF ok THEN Cardinality(docs) ELSE 0))
    /\ LET dokumente == IF ok THEN Sortiert(docs) ELSE <<>>
       IN Rueckgabe(Ergebnis(IF dokumente # <<>> THEN "liste" ELSE "keine_dokumente",
                             dokumente, <<"dokumente_auflisten">>, "dokumentensuche"))
    /\ UNCHANGED <<docs, nachrichten, query, intent, dokument_name, genLog,
                   ergebnisse, verlauf0, apiVars, modelVars, ingestVars>>

\* lines 475-526 up to the next external call, search_result the tool's dict
NachSuche(success, erg) ==
    IF success /\ erg # <<>>
    THEN IF FormatSearchResultsOk(erg)
         THEN /\ ergebnisse' = erg
              /\ pc' = "kontext_liste"
              /\ UNCHANGED result
         ELSE /\ ergebnisse' = erg
              /\ Rueckgabe(FehlerErgebnis)
    ELSE /\ ergebnisse' = <<>>
         /\ pc' = "leer_liste"
         /\ UNCHANGED result

\* process_llm_request with dokument_name: nach_dokument_suchen (line 38)
SucheDokument(ok, roh) ==
    /\ pc = "suche_dokument"
    /\ roh \in TrefferFolgen({dokument_name} \cap docs)
    /\ ~ok => roh = <<>>
    /\ retLog' = Append(retLog, RetEintrag("nach_dokument_suchen", dokument_name,
                                           AmdQuery(query, intent.ziel), ok, Len(roh)))
    /\ IF ~ok THEN NachSuche(FALSE, <<>>)
       ELSE IF roh = <<>>
            THEN /\ pc' = "suche_fallback"
                 /\ UNCHANGED <<ergebnisse, result>>
            ELSE NachSuche(TRUE, Formatiert(roh))
    /\ UNCHANGED <<docs, nachrichten, query, intent, dokument_name, genLog,
                   verlauf0, apiVars, modelVars, ingestVars>>

\* lines 39-47: the fallback returns the hits of aehnliche_suchen as they are
SucheFallback(ok, roh) ==
    /\ pc = "suche_fallback"
    /\ roh \in TrefferFolgen(docs)
    /\ ~ok => roh = <<>>
    /\ retLog' = Append(retLog, RetEintrag("aehnliche_suchen", None,
                                           AmdQuery(query, intent.ziel), ok, Len(roh)))
    /\ IF ~ok THEN NachSuche(FALSE, <<>>) ELSE NachSuche(TRUE, roh)
    /\ UNCHANGED <<docs, nachrichten, query, intent, dokument_name, genLog,
                   verlauf0, apiVars, modelVars, ingestVars>>

\* process_llm_request without dokument_name: aehnliche_suchen (line 50)
SucheAllgemein(ok, roh) ==
    /\ pc = "suche_allgemein"
    /\ roh \in TrefferFolgen(docs)
    /\ ~ok => roh = <<>>
    /\ retLog' = Append(retLog, RetEintrag("aehnliche_suchen", None,
                                           AmdQuery(query, intent.ziel), ok, Len(roh)))
    /\ IF ~ok THEN NachSuche(FALSE, <<>>) ELSE NachSuche(TRUE, Formatiert(roh))
    /\ UNCHANGED <<docs, nachrichten, query, intent, dokument_name, genLog,
                   verlauf0, apiVars, modelVars, ingestVars>>

\* line 485: the listing for the prompt of the final answer
KontextListe(ok) ==
    /\ pc = "kontext_liste"
    /\ retLog' = Append(retLog, RetEintrag("auflisten", None, <<>>, ok, IF ok THEN Cardinality(docs) ELSE 0))
    /\ IF ok THEN pc' = "final_gen" /\ UNCHANGED result
             ELSE Rueckgabe(FehlerErgebnis)
    /\ UNCHANGED <<docs, nachrichten, query, intent, dokument_name, genLog,
                   ergebnisse, verlauf0, apiVars, modelVars, ingestVars>>

\* lines 501-510
FinalGen(o) ==
    /\ pc = "final_gen"
    /\ genLog' = Append(genLog, GenEintrag("final", o))
    /\ IF generate_content(o) = "raise"
       THEN Rueckgabe(FehlerErgebnis)
       ELSE /\ result' = Ergebnis(_bereinige_thinking(generate_content(o)),
                                  Quellen(ergebnisse), <<"dokumente_suchen">>,
                                  "dokumentensuche")
            /\ pc' = NachGenerierung("final_gen", o)
    /\ UNCHANGED <<docs, nachrichten, query, intent, dokument_name, retLog,
                   ergebnisse, verlauf0, apiVars, modelVars, ingestVars>>

\* lines 511-526: nothing found
LeerListe(ok) ==
    /\ pc = "leer_liste"
    /\ retLog' = Append(retLog, RetEintrag("auflisten", None, <<>>, ok, IF ok THEN Cardinality(docs) ELSE 0))
    /\ IF ok THEN Rueckgabe(Ergebnis(IF docs # {} THEN "nichts_gefunden"
                                                  ELSE "keine_dokumente",
                                     <<>>, <<"dokumente_suchen">>,
                                     "dokumentensuche_leer"))
             ELSE Rueckgabe(FehlerErgebnis)
    /\ UNCHANGED <<docs, nachrichten, query, intent, dokument_name, genLog,
                   ergebnisse, verlauf0, apiVars, modelVars, ingestVars>>

\* main.py 265-285: the answer is appended to the history
TurnEnde ==
    /\ pc = "done"
    /\ nachrichten' = Append(nachrichten,
           [rolle |-> "assistant", inhalt |-> result.antwort,
            quellen |-> IF result.success THEN result.quellen ELSE <<>>])
    /\ pc' = "ende"
    /\ UNCHANGED <<docs, query, intent, dokument_name, genLog, retLog,
                   ergebnisse, result, verlauf0, apiVars, modelVars, ingestVars>>

\* st.rerun(): the locals of the turn are gone
Rerun ==
    /\ pc = "ende"
    /\ TurnReset
    /\ UNCHANGED <<docs, nachrichten, apiVars, modelVars, ingestVars>>

\* main.py 309-311: "Chat loeschen"
ChatLoeschen ==
    /\ pc = "idle"
    /\ nachrichten # <<>>
    /\ nachrichten' = <<>>
    /\ UNCHANGED <<docs, turnVars, apiVars, modelVars, ingestVars>>

\* vektor_store.dokument_hinzufuegen after an upload
DokumentHinzufuegen(d) ==
    /\ pc = "idle"
    /\ d \notin docs
    /\ docs' = docs \cup {d}
    /\ UNCHANGED <<nachrichten, turnVars, apiVars, modelVars, ingestVars>>

\* vektor_store.dokument_entfernen
DokumentEntfernen(d) ==
    /\ pc = "idle"
    /\ d \in docs
    /\ docs' = docs \ {d}
    /\ UNCHANGED <<nachrichten, turnVars, apiVars, modelVars, ingestVars>>

-----------------------------------------------------------------------------
(* Model switching.  The handler is one object for all Streamlit sessions  *)
(* (st.cache_resource, main.py 61-73) and every script run of a session,   *)
(* each in a thread of its own, calls model_wechseln (main.py 140) with    *)
(* no lock: its statements interleave with a turn of another session.      *)

\* the models ollama lists
Modelle == {"llama3", "qwen3"}

\* model_wechseln, line 602: self.model = neues_model
WechselBeginn(m) ==
    /\ swPc = "idle"
    /\ model' = m
    /\ swPc' = "llm"
    /\ UNCHANGED <<llm_model_name, swLast, docs, nachrichten, turnVars, apiVars,
                   ingestVars>>

\* line 603: self.llm.model_name = neues_model
WechselLlm ==
    /\ swPc = "llm"
    /\ llm_model_name' = model
    /\ swPc' = "agent"
    /\ UNCHANGED <<model, swLast, docs, nachrichten, turnVars, apiVars, ingestVars>>

\* lines 605-621: the agent is built anew
WechselEnde ==
    /\ swPc = "agent"
    /\ swPc' = "idle"
    /\ UNCHANGED <<model, llm_model_name, swLast, docs, nachrichten, turnVars,
                   apiVars, ingestVars>>

-----------------------------------------------------------------------------
(* POST /api/models/{model_name} (api_server.py, switch_model).  The       *)
(* endpoint is a coroutine without an await, so a request runs as a whole.  *)

\* the names a request can carry: ollama's models and one it does not have
ModellNamen == Modelle \cup {"unbekannt"}

KeinWechsel ==
    [status |-> 0, model_name |-> None, verfuegbar |-> FALSE, liste |-> {},
     verbunden |-> FALSE, ausgabe |-> "text",
     vorher |-> [model |-> "llama3", llm_model_name |-> "llama3"]]

\* a test that every model passes
model_testen_Immer(verbunden, o) == TRUE

\* ChatHandlerADK.model_testen: the model's own OllamaLLM connects and its
\* answer to "Test" names no error; any exception counts as failed
model_testen(verbunden, o) ==
    /\ verbunden
    /\ generate_content(o) \notin {"raise", "Ollama-Fehler", "Verbindungsfehler zu Ollama"}

\* switch_model: the status of the response, and the model of the handler
\* and of its llm after the request
switch_model(model_name, verfuegbar, liste, verbunden, o) ==
    LET bleibt(st) == [status |-> st, model |-> model,
                       llm_model_name |-> llm_model_name]
    IN IF ~verfuegbar THEN bleibt(503)                      \* lines 343-344
       ELSE IF liste = {} THEN bleibt(503)                  \* lines 346-351
       ELSE IF model_name \notin liste THEN bleibt(404)     \* lines 353-354
       ELSE IF ~model_testen(verbunden, o) THEN bleibt(400) \* lines 356-357
       ELSE [status |-> 200, model |-> model_name,          \* line 359
             llm_model_name |-> model_name]

\* one request: the name asked for, the answers of ollama_verfuegbar() and
\* verfuegbare_modelle_auflisten(), and how the test of the model goes
SwitchModel(model_name, verfuegbar, liste, verbunden, o) ==
    /\ swPc = "idle"
    /\ LET e == switch_model(model_name, verfuegbar, liste, verbunden, o)
       IN /\ model' = e.model
          /\ llm_model_name' = e.llm_model_name
          /\ swLast' = [status |-> e.status, model_name |-> model_name,
                        verfuegbar |-> verfuegbar, liste |-> liste,
                        verbunden |-> verbunden, ausgabe |-> o,
                        vorher |-> [model |-> model,
                                    llm_model_name |-> llm_model_name]]
    /\ UNCHANGED <<swPc, docs, nachrichten, turnVars, apiVars, ingestVars>>

-----------------------------------------------------------------------------
(* The SQLite chat history (chat_history.py) and POST /api/chat            *)
(* (api_server.py, chat_endpoint)                                          *)

KeineAnfrage == [status |-> 0, geschrieben |-> <<>>]

KeinAufruf == [op |-> "-", sid |-> None, ergebnis |-> [gefunden |-> FALSE, messages |-> <<>>]]

\* a row of chat_messages; its id is its place in the table
Zeile(sid, role, content, timestamp) ==
    [session_id |-> sid, role |-> role, content |-> content,
     timestamp |-> timestamp]

\* str(uuid.uuid4()): the n-th id handed out
UuidFolge == <<"u1", "u2", "u3", "u4">>
Uuid(n) == UuidFolge[n]

\* ChatHistoryManager.create_session: a row with a fresh uuid4
create_session ==
    /\ uuids < MaxSessions
    /\ uuids' = uuids + 1
    /\ sessions' = sessions \cup {Uuid(uuids + 1)}
    /\ UNCHANGED <<messages, apiLast, uhr, histLast>>

\* ChatHistoryManager.add_message: the INSERT into chat_messages; the
\* connection never turns PRAGMA foreign_keys on, so any session_id goes in
\* with the timestamp datetime.now() gave
add_message(rows, sid, role, content, jetzt) ==
    Append(rows, Zeile(sid, role, content, jetzt))

AddMessage(sid, role) ==
    /\ Len(messages) < MaxMessages
    /\ messages' = add_message(messages, sid, role,
                               IF role = "user" THEN "frage" ELSE "antwort", uhr)
    /\ UNCHANGED <<sessions, uuids, apiLast, uhr, histLast>>

\* ChatHistoryManager.delete_session: DELETE FROM chat_sessions, and whether
\* a row was found and went (cursor.rowcount > 0).  Foreign keys are not enforced, so the
\* ON DELETE CASCADE of chat_messages never runs.
delete_session(sid) ==
    /\ sessions' = sessions \ {sid}
    /\ histLast' = [op |-> "delete_session", sid |-> sid,
                    ergebnis |-> [gefunden |-> sid \in sessions,
                                  messages |-> <<>>]]
    /\ UNCHANGED <<messages, uuids, apiLast, uhr>>

\* the ids of the rows of a session
ZeilenVon(sid) == {i \in 1..Len(messages) : messages[i].session_id = sid}

\* what SELECT ... WHERE session_id = ? ORDER BY timestamp ASC can deliver:
\* the session's rows in any order that ascends in timestamp (SQL leaves the
\* order of rows with equal timestamps open), as lists of row ids
SortierteZeilen(sid) ==
    LET ids == ZeilenVon(sid)
    IN {f \in [1..Cardinality(ids) -> ids] :
          /\ \A j, k \in 1..Cardinality(ids) : j # k => f[j] # f[k]
          /\ \A j, k \in 1..Cardinality(ids) :
                j < k => messages[f[j]].timestamp <= messages[f[k]].timestamp}

\* ChatHistoryManager.get_session: None for an unknown session, else the
\* session's messages as the query delivered them
get_session(sid, zeilen) ==
    IF sid \notin sessions
    THEN [gefunden |-> FALSE, messages |-> <<>>]
    ELSE [gefunden |-> TRUE,
          messages |-> [j \in 1..Len(zeilen) |->
                          [role |-> messages[zeilen[j]].role,
                           content |-> messages[zeilen[j]].content,
                           timestamp |-> messages[zeilen[j]].timestamp]]]

GetSession(sid) ==
    /\ \E zeilen \in SortierteZeilen(sid) :
          histLast' = [op |-> "get_session", sid |-> sid,
                       ergebnis |-> get_session(sid, zeilen)]
    /\ UNCHANGED <<sessions, messages, uuids, apiLast, uhr>>

\* time passes between two calls, or the wall clock is set back
UhrStellen(t) ==
    /\ t # uhr
    /\ uhr' = t
    /\ UNCHANGED <<sessions, messages, uuids, apiLast, histLast>>

\* ChatHandlerADK.__init__ sets ollama_url, model, vektor_store, llm, the two
\* tools and agent: the handler has no attribute model_name
HandlerHatModelName_Gesetzt == TRUE

HandlerHatModelName == FALSE

\* ChatRequest has the fields message and session_id only
RequestHatTemperature == FALSE

\* antwort_generieren(self, query) takes the query only
AntwortGenerierenNimmtVerlauf == FALSE

\* chat_endpoint: a request with session id sid0 (None: none given), the
\* answers of ollama_verfuegbar() and verfuegbare_modelle_auflisten(), and r
\* the dict antwort_generieren would return.  Any exception but HTTPException
\* ends the request with status 500 (lines 137-142).
ChatEndpointLauf(sid0, verfuegbar, modelle, r) ==
    LET unveraendert(st) == [status |-> st, sessions |-> sessions,
                             messages |-> messages, uuids |-> uuids]
    IN IF ~verfuegbar THEN unveraendert(503)              \* lines 76-80
       ELSE IF ~modelle THEN unveraendert(503)            \* lines 82-87
       ELSE IF ~HandlerHatModelName THEN unveraendert(500)  \* line 90
       ELSE LET neu == sid0 = None                        \* lines 95-99
                sid == IF neu THEN Uuid(uuids + 1) ELSE sid0
                s1 == IF neu THEN sessions \cup {sid} ELSE sessions
                u1 == IF neu THEN uuids + 1 ELSE uuids
                m1 == add_message(messages, sid, "user", "frage", uhr)   \* line 110
            IN IF ~RequestHatTemperature \/ ~AntwortGenerierenNimmtVerlauf
               THEN [status |-> 500, sessions |-> s1, messages |-> m1,
                     uuids |-> u1]                        \* lines 113-117
               ELSE [status |-> 200, sessions |-> s1, uuids |-> u1,
                     messages |-> add_message(m1, sid, "assistant", r.antwort, uhr)]

ChatEndpoint(sid0, verfuegbar, modelle, r) ==
    /\ Len(messages) + 2 <= MaxMessages
    /\ sid0 = None => uuids < MaxSessions
    /\ LET e == ChatEndpointLauf(sid0, verfuegbar, modelle, r)
       IN /\ sessions' = e.sessions
          /\ messages' = e.messages
          /\ uuids' = e.uuids
          /\ apiLast' = [status |-> e.status,
                         geschrieben |->
                            [i \in 1..(Len(e.messages) - Len(messages)) |->
                                e.messages[Len(messages) + i].role]]
    /\ UNCHANGED <<uhr, histLast>>

\* ids a caller can name: those handed out and one the store never saw
SessionIds == {Uuid(n) : n \in 1..MaxSessions} \cup {"fremd"}

NextApi ==
    \/ create_session /\ UNCHANGED <<docs, nachrichten, turnVars, modelVars, ingestVars>>
    \/ \E sid \in SessionIds, role \in {"user", "assistant"} :
          AddMessage(sid, role) /\ UNCHANGED <<docs, nachrichten, turnVars, modelVars, ingestVars>>
    \/ \E sid \in SessionIds :
          delete_session(sid) /\ UNCHANGED <<docs, nachrichten, turnVars, modelVars, ingestVars>>
    \/ \E sid0 \in SessionIds \cup {None}, verfuegbar \in BOOLEAN, modelle \in BOOLEAN,
          r \in {FehlerErgebnis, Ergebnis("text", <<>>, <<>>, "normale_unterhaltung")} :
          ChatEndpoint(sid0, verfuegbar, modelle, r)
             /\ UNCHANGED <<docs, nachrichten, turnVars, modelVars, ingestVars>>

-----------------------------------------------------------------------------
(* Chunking (DokumentProcessor.text_chunken).  A text is the sequence of   *)
(* its characters; "a" stands for a letter, "!" for '!' and '?', which the *)
(* code treats alike, " " and "\n" are the whitespace str.strip() removes. *)

Zeichen == {"a", ".", "!", " ", "\n"}
Leerraum == {" ", "\n"}

\* the texts of at most MaxText characters
Texte == UNION {[1..n -> Zeichen] : n \in 0..MaxText}

\* the values of chunk_groesse
Groessen == 1..MaxGroesse

\* str.strip()
strip(s) ==
    LET I == {i \in 1..Len(s) : s[i] \notin Leerraum}
    IN IF I = {} THEN <<>>
       ELSE SubSeq(s, CHOOSE i \in I : \A j \in I : i <= j,
                      CHOOSE i \in I : \A j \in I : j <= i)

\* text.split('\n\n')
RECURSIVE SplitAbsaetze(_)
SplitAbsaetze(s) ==
    LET I == {i \in 1..(Len(s) - 1) : s[i] = "\n" /\ s[i + 1] = "\n"}
    IN IF I = {} THEN <<s>>
       ELSE LET i == CHOOSE k \in I : \A j \in I : k <= j
            IN <<SubSeq(s, 1, i - 1)>> \o SplitAbsaetze(SubSeq(s, i + 2, Len(s)))

\* text.replace('!', '.').replace('?', '.')
ErsetzeSatzzeichen(s) == [i \in 1..Len(s) |-> IF s[i] = "!" THEN "." ELSE s[i]]

\* str.split('.')
RECURSIVE SplitPunkt(_)
SplitPunkt(s) ==
    LET I == {i \in 1..Len(s) : s[i] = "."}
    IN IF I = {} THEN <<s>>
       ELSE LET i == CHOOSE k \in I : \A j \in I : k <= j
            IN <<SubSeq(s, 1, i - 1)>> \o SplitPunkt(SubSeq(s, i + 1, Len(s)))

\* if aktueller_chunk.strip(): chunks.append(aktueller_chunk.strip())
MitChunk(cs, akt) == IF strip(akt) # <<>> THEN Append(cs, strip(akt)) ELSE cs

\* _langen_text_aufteilen: one pass of the loop over the sentences
SatzSchritt(st, satz0, g) ==
    LET satz == strip(satz0)
    IN IF satz = <<>> THEN st
       ELSE IF Len(st.akt) + Len(satz) + 2 < g
       THEN [chunks |-> st.chunks, akt |-> st.akt \o satz \o <<".", " ">>]
       ELSE [chunks |-> MitChunk(st.chunks, st.akt), akt |-> satz \o <<".", " ">>]

_langen_text_aufteilen(t, g) ==
    LET saetze == SplitPunkt(ErsetzeSatzzeichen(t))
        F[i \in 0..Len(saetze)] ==
          IF i = 0 THEN [chunks |-> <<>>, akt |-> <<>>]
          ELSE SatzSchritt(F[i - 1], saetze[i], g)
        ende == F[Len(saetze)]
    IN MitChunk(ende.chunks, ende.akt)

\* the fit test without the two characters of the separator
PasstInPuffer_OhneTrenner(akt, absatz, g) == Len(akt) + Len(absatz) < g

\* the test of line 253 whether the paragraph still fits into the buffer
PasstInPuffer(akt, absatz, g) == Len(akt) + Len(absatz) + 2 < g

\* text_chunken: one pass of the loop over the paragraphs
AbsatzSchritt(st, absatz0, g) ==
    LET absatz == strip(absatz0)
    IN IF absatz = <<>> THEN st
       ELSE IF PasstInPuffer(st.akt, absatz, g)
       THEN [chunks |-> st.chunks, akt |-> st.akt \o absatz \o <<"\n", "\n">>]
       ELSE LET cs == MitChunk(st.chunks, st.akt)
            IN IF Len(absatz) > g
               THEN [chunks |-> cs \o _langen_text_aufteilen(absatz, g), akt |-> <<>>]
               ELSE [chunks |-> cs, akt |-> absatz \o <<"\n", "\n">>]

text_chunken(t, g) ==
    IF strip(t) = <<>> THEN << <<>> >>
    ELSE LET absaetze == SplitAbsaetze(t)
             F[i \in 0..Len(absaetze)] ==
               IF i = 0 THEN [chunks |-> <<>>, akt |-> <<>>]
               ELSE AbsatzSchritt(F[i - 1], absaetze[i], g)
             ende == F[Len(absaetze)]
             cs == MitChunk(ende.chunks, ende.akt)
         IN IF cs # <<>> THEN cs ELSE << <<>> >>

\* DokumentProcessor(chunk_groesse).text_chunken(text)
TextChunken ==
    /\ ipc = "bereit"
    /\ chunks' = text_chunken(text, chunk_groesse)
    /\ ipc' = "fertig"
    /\ UNCHANGED <<text, chunk_groesse, pdfLast, verarbeitung, docs, nachrichten,
                   turnVars, apiVars, modelVars>>

-----------------------------------------------------------------------------
(* PDF extraction with the OCR pass (DokumentProcessor.pdf_verarbeiten).   *)
(* A text is known by where it comes from and by len(text.strip()).        *)

\* len(text.strip()) < 100
OcrSchwelle == 100

\* len(text.strip()) of what pdf_text_extrahieren can return
DirektLaengen == {0, 50, 99, 100, 150}

\* what readtext gives for one page: it raises, or the page's recognised
\* fragments of confidence > 0.4 have getrimmt characters, blanks between
\* them counted
Seite(ok, n) == [ok |-> ok, getrimmt |-> n]
SeitenAusgaenge == {Seite(FALSE, 0)} \cup {Seite(TRUE, n) : n \in {0, 48, 50, 99, 120}}
SeitenFolgen == UNION {[1..n -> SeitenAusgaenge] : n \in 0..MaxSeiten}

\* lines 216-227: len(text.strip()) of the pages' texts, each followed by a
\* blank and a blank line
OcrGetrimmt(seiten) ==
    LET mitText == SelectSeq(seiten, LAMBDA s : s.getrimmt > 0)
        F[i \in 0..Len(mitText)] ==
          IF i = 0 THEN 0
          ELSE F[i - 1] + mitText[i].getrimmt + (IF i > 1 THEN 3 ELSE 0)
    IN F[Len(mitText)]

\* the rendering (convert_from_path) or the recognition of a page raises
OcrFehlgeschlagen(render_ok, seiten) ==
    ~render_ok \/ \E i \in 1..Len(seiten) : ~seiten[i].ok

\* pdf_ocr without its try block: the exception leaves the function
pdf_ocr_OhneTry(render_ok, seiten) ==
    IF OcrFehlgeschlagen(render_ok, seiten)
    THEN [raised |-> TRUE, getrimmt |-> 0]
    ELSE [raised |-> FALSE, getrimmt |-> OcrGetrimmt(seiten)]

\* pdf_ocr: the OCR text, "" after any exception (lines 228-229)
pdf_ocr(render_ok, seiten) ==
    IF OcrFehlgeschlagen(render_ok, seiten)
    THEN [raised |-> FALSE, getrimmt |-> 0]
    ELSE [raised |-> FALSE, getrimmt |-> OcrGetrimmt(seiten)]

\* the comparison of line 197 with a tie won by the OCR text
OcrIstLaenger_AuchGleich(ocr, direkt) == ocr >= direkt

\* line 197: len(ocr_text.strip()) > len(text.strip())
OcrIstLaenger(ocr, direkt) == ocr > direkt

\* pdf_verarbeiten: (text, ocr_used), or the exception that left pdf_ocr
pdf_verarbeiten(direkt, reader, render_ok, seiten) ==
    LET direktText == [quelle |-> "direkt", getrimmt |-> direkt]
        ohneOcr == [raised |-> FALSE, text |-> direktText, ocr_used |-> FALSE,
                    ocr_lief |-> FALSE, ocr_getrimmt |-> 0]
    IN IF direkt < OcrSchwelle /\ reader
       THEN LET o == pdf_ocr(render_ok, seiten)
            IN IF o.raised
               THEN [raised |-> TRUE, text |-> direktText, ocr_used |-> FALSE,
                     ocr_lief |-> TRUE, ocr_getrimmt |-> 0]
               ELSE IF OcrIstLaenger(o.getrimmt, direkt)
               THEN [raised |-> FALSE,
                     text |-> [quelle |-> "ocr", getrimmt |-> o.getrimmt],
                     ocr_used |-> TRUE, ocr_lief |-> TRUE,
                     ocr_getrimmt |-> o.getrimmt]
               ELSE [raised |-> FALSE, text |-> direktText, ocr_used |-> FALSE,
                     ocr_lief |-> TRUE, ocr_getrimmt |-> o.getrimmt]
       ELSE ohneOcr

\* no pdf_verarbeiten yet
KeinPdf == [aufrufe |-> 0]

\* one call of pdf_verarbeiten: the PDF's direct text, whether the OCR reader
\* was built, and how the OCR pass goes.  The function keeps no state, so a
\* behaviour follows a single call.
PdfVerarbeiten(direkt, reader, render_ok, seiten) ==
    /\ pdfLast = KeinPdf
    /\ pdfLast' = [aufrufe |-> 1, direkt |-> direkt,
                   reader |-> reader,
                   render_ok |-> render_ok, seiten |-> seiten,
                   ocr_fehler |-> OcrFehlgeschlagen(render_ok, seiten),
                   ergebnis |-> pdf_verarbeiten(direkt, reader, render_ok, seiten)]
    /\ UNCHANGED <<text, chunk_groesse, chunks, ipc, verarbeitung, docs,
                   nachrichten, turnVars, apiVars, modelVars>>

-----------------------------------------------------------------------------
(* Ingestion of one file (DokumentProcessor.dokument_verarbeiten): the     *)
(* dispatch on the extension and the three format-specific extractors,     *)
(* on texts written out as sequences of characters.                        *)

MaxBytes == 2          \* bytes of a plain-text file

\* os.path.splitext(datei_pfad)[1], as the path spells it
Erweiterungen ==
    {<<".", "p", "d", "f">>, <<".", "P", "D", "F">>,
     <<".", "d", "o", "c", "x">>, <<".", "D", "o", "c", "X">>,
     <<".", "t", "x", "t">>, <<".", "T", "X", "T">>,
     <<".", "d", "o", "c">>, <<".", "m", "d">>, <<>>}

\* str.lower() on one character
KleinZeichen(c) ==
    CASE c = "P" -> "p" [] c = "D" -> "d" [] c = "F" -> "f"
      [] c = "O" -> "o" [] c = "C" -> "c" [] c = "X" -> "x"
      [] c = "T" -> "t" [] OTHER -> c

\* the extension compared as the path spells it
lower_Unveraendert(s) == s

\* str.lower()
lower(s) == [i \in 1..Len(s) |-> KleinZeichen(s[i])]

\* what a page or a paragraph can hold
SeitenTexte == {<<>>, <<" ">>, <<"a">>}

\* a page of a PDF: extract_text raises or gives a text; readtext on the
\* rendered page raises or gives fragments, those of confidence > 0.4 joined
\* with a blank after each
PdfSeiten ==
    LET extract == [extract_ok : {TRUE}, seiten_text : SeitenTexte]
                   \cup [extract_ok : {FALSE}, seiten_text : {<<>>}]
        ocr == [ocr_ok : {TRUE}, ocr_text : {<<>>, <<"a", " ">>}]
               \cup [ocr_ok : {FALSE}, ocr_text : {<<>>}]
    IN {[extract_ok |-> x.extract_ok, seiten_text |-> x.seiten_text,
         ocr_ok |-> o.ocr_ok, ocr_text |-> o.ocr_text] : x \in extract, o \in ocr}

\* the bytes of a file: 0x61, 0xA4, 0xC3, 0xE4
Bytes == {97, 164, 195, 228}
ByteFolgen == UNION {[1..n -> Bytes] : n \in 0..MaxBytes}

\* a binary file begins with bytes that are no UTF-8
BinaerBytes == <<97, 228>>

\* what a path can lead to: a PDF with its pages, a Word document with its
\* paragraphs, a plain-text file with its bytes, a file that is neither, or
\* nothing that open() can read
Inhalte ==
    [art : {"pdf"}, seiten : UNION {[1..n -> PdfSeiten] : n \in 0..MaxSeiten}]
    \cup [art : {"docx"}, absaetze : UNION {[1..n -> SeitenTexte] : n \in 0..MaxSeiten}]
    \cup [art : {"txt"}, bytes : ByteFolgen]
    \cup [art : {"kaputt", "unlesbar"}]

Dateien == [erweiterung : Erweiterungen, inhalt : Inhalte]

\* what an extractor gives: its return value, and whether an exception was
\* raised inside it (and caught there)
Extrakt(t, fehler) == [text |-> t, fehler |-> fehler]

\* pdf_text_extrahieren: the pages' texts, each followed by a blank line;
\* an exception ends the loop and the text gathered so far is returned
pdf_text_extrahieren(inhalt) ==
    IF inhalt.art # "pdf" THEN Extrakt(<<>>, TRUE)
    ELSE LET F[i \in 0..Len(inhalt.seiten)] ==
               IF i = 0 THEN Extrakt(<<>>, FALSE)
               ELSE LET s == inhalt.seiten[i]
                    IN IF F[i - 1].fehler \/ ~s.extract_ok
                       THEN Extrakt(F[i - 1].text, TRUE)
                       ELSE IF strip(s.seiten_text) # <<>>
                       THEN Extrakt(F[i - 1].text \o s.seiten_text \o <<"\n", "\n">>, FALSE)
                       ELSE F[i - 1]
         IN F[Len(inhalt.seiten)]

\* docx_text_extrahieren: the paragraphs' texts, each followed by a blank
\* line; "" when docx.Document raises
docx_text_extrahieren(inhalt) ==
    IF inhalt.art # "docx" THEN Extrakt(<<>>, TRUE)
    ELSE LET F[i \in 0..Len(inhalt.absaetze)] ==
               IF i = 0 THEN <<>>
               ELSE IF strip(inhalt.absaetze[i]) # <<>>
               THEN F[i - 1] \o inhalt.absaetze[i] \o <<"\n", "\n">>
               ELSE F[i - 1]
         IN Extrakt(F[Len(inhalt.absaetze)], FALSE)

\* the bytes that open(datei_pfad) reads
BytesVon(inhalt) ==
    IF inhalt.art = "txt" THEN inhalt.bytes ELSE BinaerBytes

\* decoding as UTF-8: 61 is "a", C3 A4 is U+E4, E4 A4 A4 is U+4924, and
\* every other sequence of these bytes raises UnicodeDecodeError
RECURSIVE utf8(_)
utf8(b) ==
    IF b = <<>> THEN [ok |-> TRUE, text |-> <<>>]
    ELSE IF b[1] = 97
    THEN LET r == utf8(Tail(b)) IN [ok |-> r.ok, text |-> <<"a">> \o r.text]
    ELSE IF b[1] = 195 /\ Len(b) >= 2 /\ b[2] = 164
    THEN LET r == utf8(SubSeq(b, 3, Len(b)))
         IN [ok |-> r.ok, text |-> <<"U+E4">> \o r.text]
    ELSE IF b[1] = 228 /\ Len(b) >= 3 /\ b[2] = 164 /\ b[3] = 164
    THEN LET r == utf8(SubSeq(b, 4, Len(b)))
         IN [ok |-> r.ok, text |-> <<"U+4924">> \o r.text]
    ELSE [ok |-> FALSE, text |-> <<>>]

\* decoding as Latin-1: every byte is a character
latin1(b) ==
    [i \in 1..Len(b) |->
       CASE b[i] = 97 -> "a" [] b[i] = 164 -> "U+A4"
         [] b[i] = 195 -> "U+C3" [] b[i] = 228 -> "U+E4"]

\* txt_text_extrahieren: UTF-8, Latin-1 after a UnicodeDecodeError, "" after
\* any other exception
txt_text_extrahieren(inhalt) ==
    IF inhalt.art = "unlesbar"
    THEN [text |-> <<>>, fehler |-> TRUE, encoding |-> None]
    ELSE LET u == utf8(BytesVon(inhalt))
         IN IF u.ok
            THEN [text |-> u.text, fehler |-> FALSE, encoding |-> "utf-8"]
            ELSE [text |-> latin1(BytesVon(inhalt)), fehler |-> TRUE,
                  encoding |-> "latin-1"]

\* pdf_ocr on texts: the pages' recognised texts, each followed by a blank
\* line; "" after any exception
pdf_ocr_Text(inhalt, render_ok) ==
    IF inhalt.art # "pdf" \/ ~render_ok
       \/ \E i \in 1..Len(inhalt.seiten) : ~inhalt.seiten[i].ocr_ok
    THEN <<>>
    ELSE LET F[i \in 0..Len(inhalt.seiten)] ==
               IF i = 0 THEN <<>>
               ELSE IF strip(inhalt.seiten[i].ocr_text) # <<>>
               THEN F[i - 1] \o inhalt.seiten[i].ocr_text \o <<"\n", "\n">>
               ELSE F[i - 1]
         IN F[Len(inhalt.seiten)]

\* pdf_verarbeiten on texts: (text, ocr_used)
pdf_verarbeiten_Text(inhalt, reader, render_ok) ==
    LET e == pdf_text_extrahieren(inhalt)
        ocr_text == pdf_ocr_Text(inhalt, render_ok)
    IN IF Len(strip(e.text)) < OcrSchwelle /\ reader
          /\ OcrIstLaenger(Len(strip(ocr_text)), Len(strip(e.text)))
       THEN [text |-> ocr_text, ocr_used |-> TRUE, extrakt |-> e]
       ELSE [text |-> e.text, ocr_used |-> FALSE, extrakt |-> e]

\* text_extrahieren: the extractor the lowercased extension names, or
\* ValueError; extrakt is what the format's own extractor returned
text_extrahieren(datei, reader, render_ok) ==
    LET erweiterung == lower(datei.erweiterung)
    IN IF erweiterung = <<".", "p", "d", "f">>
       THEN LET r == pdf_verarbeiten_Text(datei.inhalt, reader, render_ok)
            IN [raised |-> FALSE, extraktor |-> "pdf_verarbeiten",
                text |-> r.text, ocr_used |-> r.ocr_used,
                extrakt |-> r.extrakt, encoding |-> None]
       ELSE IF erweiterung = <<".", "d", "o", "c", "x">>
       THEN LET e == docx_text_extrahieren(datei.inhalt)
            IN [raised |-> FALSE, extraktor |-> "docx_text_extrahieren",
                text |-> e.text, ocr_used |-> FALSE,
                extrakt |-> e, encoding |-> None]
       ELSE IF erweiterung = <<".", "t", "x", "t">>
       THEN LET e == txt_text_extrahieren(datei.inhalt)
            IN [raised |-> FALSE, extraktor |-> "txt_text_extrahieren",
                text |-> e.text, ocr_used |-> FALSE,
                extrakt |-> Extrakt(e.text, e.fehler), encoding |-> e.encoding]
       ELSE [raised |-> TRUE, extraktor |-> None, text |-> <<>>,
             ocr_used |-> FALSE, extrakt |-> Extrakt(<<>>, FALSE),
             encoding |-> None]

\* dokument_verarbeiten: the result dict, or the exception of text_extrahieren
dokument_verarbeiten(datei, reader, render_ok, groesse) ==
    LET e == text_extrahieren(datei, reader, render_ok)
    IN IF e.raised
       THEN [raised |-> TRUE, fehler |-> "ValueError", chunks |-> <<>>,
             chunk_anzahl |-> 0, text_laenge |-> 0, ocr_used |-> FALSE]
       ELSE LET c == text_chunken(e.text, groesse)
            IN [raised |-> FALSE, fehler |-> None, chunks |-> c,
                chunk_anzahl |-> Len(c), text_laenge |-> Len(e.text),
                ocr_used |-> e.ocr_used]

KeineVerarbeitung == [aufrufe |-> 0]

\* one call of dokument_verarbeiten; the processor keeps nothing of a call,
\* so a behaviour follows a single one
DokumentVerarbeiten(datei, reader, render_ok) ==
    /\ verarbeitung = KeineVerarbeitung
    /\ verarbeitung' =
         [aufrufe |-> 1, datei |-> datei, reader |-> reader,
          render_ok |-> render_ok,
          extraktion |-> text_extrahieren(datei, reader, render_ok),
          ergebnis |-> dokument_verarbeiten(datei, reader, render_ok, chunk_groesse)]
    /\ UNCHANGED <<text, chunk_groesse, chunks, ipc, pdfLast, docs, nachrichten,
                   turnVars, apiVars, modelVars>>

-----------------------------------------------------------------------------

\* the state after construction, but for the text to be chunked
InitOhneText ==
    /\ docs = {}
    /\ nachrichten = <<>>
    /\ pc = "idle"
    /\ query = <<>>
    /\ intent = NoIntent
    /\ dokument_name = None
    /\ genLog = <<>>
    /\ retLog = <<>>
    /\ ergebnisse = <<>>
    /\ result = NoResult
    /\ verlauf0 = <<>>
    /\ sessions = {}
    /\ messages = <<>>
    /\ uuids = 0
    /\ apiLast = KeineAnfrage
    /\ uhr = 0
    /\ histLast = KeinAufruf
    /\ model = "llama3"
    /\ llm_model_name = "llama3"
    /\ swPc = "idle"
    /\ swLast = KeinWechsel
    /\ chunks = <<>>
    /\ ipc = "bereit"
    /\ pdfLast = KeinPdf
    /\ verarbeitung = KeineVerarbeitung

Init == InitOhneText /\ text = <<>> /\ chunk_groesse = 1000

\* text_chunken is handed any text, under any chunk_groesse
InitChunk == InitOhneText /\ text \in Texte /\ chunk_groesse \in Groessen

Next ==
    \/ \E q \in Queries, verbunden \in BOOLEAN : Eingabe(q, verbunden)
    \/ \E ok \in BOOLEAN : FaehigkeitenListe(ok)
    \/ \E ok \in BOOLEAN : BdsListe(ok)
    \/ \E o \in GenAusgaben : NormalGen(o)
    \/ \E ok \in BOOLEAN : ListeTool(ok)
    \/ \E ok \in BOOLEAN, roh \in TrefferFolgen(DocNames) : SucheDokument(ok, roh)
    \/ \E ok \in BOOLEAN, roh \in TrefferFolgen(DocNames) : SucheFallback(ok, roh)
    \/ \E ok \in BOOLEAN, roh \in TrefferFolgen(DocNames) : SucheAllgemein(ok, roh)
    \/ \E ok \in BOOLEAN : KontextListe(ok)
    \/ \E o \in GenAusgaben : FinalGen(o)
    \/ \E ok \in BOOLEAN : LeerListe(ok)
    \/ TurnEnde
    \/ Rerun
    \/ ChatLoeschen
    \/ \E d \in DocNames : DokumentHinzufuegen(d)
    \/ \E d \in DocNames : DokumentEntfernen(d)

Spec == Init /\ [][Next]_vars

SpecApi == Init /\ [][NextApi]_vars

\* the calls of the chat history, the chat requests and the clock
NextHistory ==
    \/ create_session /\ UNCHANGED <<docs, nachrichten, turnVars, modelVars, ingestVars>>
    \/ \E sid \in SessionIds, role \in {"user", "assistant"} :
          AddMessage(sid, role) /\ UNCHANGED <<docs, nachrichten, turnVars, modelVars, ingestVars>>
    \/ \E sid \in SessionIds :
          delete_session(sid) /\ UNCHANGED <<docs, nachrichten, turnVars, modelVars, ingestVars>>
    \/ \E sid \in SessionIds :
          GetSession(sid) /\ UNCHANGED <<docs, nachrichten, turnVars, modelVars, ingestVars>>
    \/ \E t \in 0..MaxZeit :
          UhrStellen(t) /\ UNCHANGED <<docs, nachrichten, turnVars, modelVars, ingestVars>>
    \/ \E sid0 \in SessionIds \cup {None}, verfuegbar \in BOOLEAN, modelle \in BOOLEAN,
          r \in {FehlerErgebnis, Ergebnis("text", <<>>, <<>>, "normale_unterhaltung")} :
          ChatEndpoint(sid0, verfuegbar, modelle, r)
             /\ UNCHANGED <<docs, nachrichten, turnVars, modelVars, ingestVars>>

SpecHistory == Init /\ [][NextHistory]_vars

\* the requests to switch the model
NextSwitch ==
    \E model_name \in ModellNamen, verfuegbar \in BOOLEAN, liste \in SUBSET Modelle,
       verbunden \in BOOLEAN, o \in GenAusgaben :
       SwitchModel(model_name, verfuegbar, liste, verbunden, o)

SpecSwitch == Init /\ [][NextSwitch]_vars

\* queries of the turns that run beside the model switches
WechselQueries ==
    {<<"x">>, <<"was", "kannst", "du">>, <<"#Report">>,
     <<"welche", "dokumente">>, <<"suche", "nach">>}

\* turns of one session and the model switches of the script runs of others
NextWechsel ==
    \/ \E q \in WechselQueries : Eingabe(q, TRUE)
    \/ \E ok \in BOOLEAN : FaehigkeitenListe(ok)
    \/ \E ok \in BOOLEAN : BdsListe(ok)
    \/ \E o \in GenAusgaben : NormalGen(o)
    \/ \E ok \in BOOLEAN : ListeTool(ok)
    \/ \E ok \in BOOLEAN, roh \in TrefferFolgen(DocNames) : SucheDokument(ok, roh)
    \/ \E ok \in BOOLEAN, roh \in TrefferFolgen(DocNames) : SucheFallback(ok, roh)
    \/ \E ok \in BOOLEAN, roh \in TrefferFolgen(DocNames) : SucheAllgemein(ok, roh)
    \/ \E ok \in BOOLEAN : KontextListe(ok)
    \/ \E o \in GenAusgaben : FinalGen(o)
    \/ \E ok \in BOOLEAN : LeerListe(ok)
    \/ TurnEnde
    \/ Rerun
    \/ ChatLoeschen
    \/ \E d \in DocNames : DokumentHinzufuegen(d)
    \/ \E d \in DocNames : DokumentEntfernen(d)
    \/ \E m \in Modelle : WechselBeginn(m)
    \/ WechselLlm
    \/ WechselEnde

SpecWechsel == Init /\ [][NextWechsel]_vars

NextChunk == TextChunken

SpecChunk == InitChunk /\ [][NextChunk]_vars

NextPdf ==
    \E direkt \in DirektLaengen, reader \in BOOLEAN, render_ok \in BOOLEAN,
       seiten \in SeitenFolgen : PdfVerarbeiten(direkt, reader, render_ok, seiten)

SpecPdf == Init /\ [][NextPdf]_vars

\* a single call of dokument_verarbeiten, on any file
NextIngest ==
    /\ verarbeitung = KeineVerarbeitung
    /\ \E datei \in Dateien, reader \in BOOLEAN, render_ok \in BOOLEAN :
          DokumentVerarbeiten(datei, reader, render_ok)

SpecIngest == Init /\ [][NextIngest]_vars


-----------------------------------------------------------------------------
(* Properties *)

\* the searches among the vector store calls of the turn
Suchen ==
    SelectSeq(retLog, LAMBDA e : e.op \in {"nach_dokument_suchen", "aehnliche_suchen"})

GenFehlgeschlagen == \E i \in 1..Len(genLog) : genLog[i].ausgabe \in GenFehler

RetFehlgeschlagen == \E i \in 1..Len(retLog) : ~retLog[i].ok

\* personal/context keywords of the specification's classifier (rule 2)
personal_keywords == {<<"mein", "name">>, <<"vorher">>, <<"erinnerst", "du", "dich">>}

IstPersoenlich(q) == \E kw \in personal_keywords : Enthaelt(Klein(q), kw)

HatDokumentKeyword(q) ==
    \/ \E kw \in dokument_keywords : Enthaelt(Klein(q), kw)
    \/ \E ph \in verfuegbar_phrasen : Enthaelt(Klein(q), ph)

GenannteDokumente(q, D) == {d \in D : Enthaelt(Klein(q), <<Lower(d)>>)}

\* the name of the leftmost tag of q
NameDesErstenTags(q) ==
    TagName(q[CHOOSE i \in 1..Len(q) :
                 q[i] \in Tags /\ \A j \in 1..Len(q) : q[j] \in Tags => i <= j])

Klassifiziert == pc # "idle" /\ intent # NoIntent

C2_FehlerGemeldet ==
    (pc = "ende" /\ GenFehlgeschlagen) =>
        (~result.success /\ nachrichten = verlauf0)

\* C3: at most 2 generation calls are issued in a turn.
C3_HoechstensZwei == Len(genLog) <= 2

\* a finished turn whose only generation returned a tool call pattern
C3_Witness ==
    pc = "done" /\ Len(genLog) = 1 /\ genLog[1].ausgabe = "toolcall_text"

\* C4: the engine generates first; an output with effective tool calls leads
\* to their retrieval and exactly one second generation, with the retrieval
\* tool in tools_used; an output without leads to no retrieval and is final.
C4_ToolCallProtokoll ==
    (pc = "done" /\ result.success /\ genLog # <<>>) =>
        IF genLog[1].ausgabe = "toolcall_text"
        THEN /\ Len(genLog) = 2
             /\ Suchen # <<>>
             /\ \E i \in 1..Len(result.verwendete_tools) :
                    result.verwendete_tools[i] = "dokumente_suchen"
        ELSE Len(genLog) = 1 /\ Suchen = <<>>

\* C5: a query with a #tag is never answered in mode 'faehigkeiten'.
C5_TagVorFaehigkeiten ==
    (pc = "done" /\ HatTag(query)) => Modus(result) # "faehigkeiten"

\* C6: the Intent is that of the first matching rule in the order capability,
\* personal/context, #tag, document keyword / phrase / document name, length
\* heuristic, NORMAL.
C6_IntentNachReihenfolge(q, D) ==
    IF _ist_faehigkeiten_frage(q) THEN [art |-> "CAPABILITY", ziel |-> None]
    ELSE IF IstPersoenlich(q) THEN [art |-> "PERSONAL_CONTEXT", ziel |-> None]
    ELSE IF HatTag(q) THEN [art |-> "DOCUMENT_SEARCH", ziel |-> NameDesErstenTags(q)]
    ELSE IF GenannteDokumente(q, D) # {}
         THEN [art |-> "DOCUMENT_SEARCH",
               ziel |-> Head(Sortiert(GenannteDokumente(q, D)))]
    ELSE IF HatDokumentKeyword(q) THEN [art |-> "DOCUMENT_SEARCH", ziel |-> None]
    ELSE IF Len(q) > 5 THEN [art |-> "DOCUMENT_SEARCH", ziel |-> None]
    ELSE [art |-> "NORMAL", ziel |-> None]

C6_FesteReihenfolge ==
    Klassifiziert => intent = C6_IntentNachReihenfolge(query, docs)

C8_Laengenheuristik ==
    (/\ Klassifiziert
     /\ ~_ist_faehigkeiten_frage(query) /\ ~HatTag(query)
     /\ ~HatDokumentKeyword(query) /\ GenannteDokumente(query, docs) = {}) =>
        intent = IF Len(query) > 5 THEN [art |-> "DOCUMENT_SEARCH", ziel |-> None]
                                   ELSE [art |-> "NORMAL", ziel |-> None]

\* "was ist x x x x": a general question of six words is searched
C8_Witness ==
    /\ Klassifiziert /\ query = <<"was", "ist">> \o Pad(4)
    /\ intent = [art |-> "DOCUMENT_SEARCH", ziel |-> None]

\* C9: with an empty history a query with a personal/context keyword is
\* answered with the fixed 'no prior context' message and no generation call.
C9_KeinKontextOhneModell ==
    (pc = "done" /\ verlauf0 = <<>> /\ IstPersoenlich(query)
                 /\ ~_ist_faehigkeiten_frage(query)) =>
        genLog = <<>> /\ result.antwort = "kein_kontext"

\* C10: a turn in which a call of the retrieval capability failed still
\* completes with success = true.
C10_SucheFehlerKeinAbbruch ==
    (pc = "done" /\ RetFehlgeschlagen) => result.success

\* no search of the turn returned a hit
KeineTreffer == \A i \in 1..Len(Suchen) : Suchen[i].treffer = 0

\* C11: a DOCUMENT_SEARCH turn whose searches return no hit ends in mode
\* 'dokumentensuche_leer' with no sources and no generation call, and that
\* mode is never returned when a search returned a hit.
C11_LeereSucheEigenerModus ==
    /\ (pc = "done" /\ intent.art = "DOCUMENT_SEARCH" /\ Suchen # <<>> /\ KeineTreffer) =>
          /\ Modus(result) = "dokumentensuche_leer"
          /\ result.quellen = <<>>
          /\ genLog = <<>>
    /\ (pc = "done" /\ Modus(result) = "dokumentensuche_leer") => KeineTreffer


\* the tools of the handler that ran in the turn: the search tool (one or two
\* calls of the vector store) and the listing tool
AusgefuehrteTools ==
    {"dokumente_suchen" : i \in {j \in 1..Len(retLog) :
          retLog[j].op \in {"nach_dokument_suchen", "aehnliche_suchen"}}}
    \cup {"dokumente_auflisten" : i \in {j \in 1..Len(retLog) :
          retLog[j].op = "dokumente_auflisten"}}

\* the documents a tool of the turn returned: hits of the search, entries of
\* the listing tool
BeruehrteDokumente ==
    {ergebnisse[i].dokument : i \in 1..Len(ergebnisse)}
    \cup (IF \E j \in 1..Len(retLog) :
                retLog[j].op = "dokumente_auflisten" /\ retLog[j].ok
          THEN docs ELSE {})

QuellenUndToolsStimmen ==
    /\ \A i, j \in 1..Len(result.quellen) :
          i # j => result.quellen[i] # result.quellen[j]
    /\ \A i \in 1..Len(result.quellen) : result.quellen[i] \in BeruehrteDokumente
    /\ {result.verwendete_tools[i] : i \in 1..Len(result.verwendete_tools)}
          = AusgefuehrteTools
    /\ Len(result.verwendete_tools) = Cardinality(AusgefuehrteTools)
    /\ AusgefuehrteTools = {} => result.quellen = <<>>

\* C12 as stated: every result names each source once, only documents a tool
\* of the turn returned, and exactly the tools that ran.
C12_QuellenUndTools == pc = "done" => QuellenUndToolsStimmen

\* C12 amended: this holds of every result with success = true; an error
\* result has no sources and no tools whatever ran before the error.
C12_QuellenUndToolsBeiErfolg ==
    pc = "done" =>
        IF result.success THEN QuellenUndToolsStimmen
        ELSE result.quellen = <<>> /\ result.verwendete_tools = <<>>

\* two hits of the same document give one source
C12_Witness ==
    /\ pc = "done" /\ result.success
    /\ Len(ergebnisse) = 2 /\ ergebnisse[1].dokument = ergebnisse[2].dokument
    /\ result.quellen = <<ergebnisse[1].dokument>>
    /\ result.verwendete_tools = <<"dokumente_suchen">>


\* a call inside the turn raised into antwort_generieren: a listing called
\* directly on the vector store, or a generation answered without a text
InternerFehler ==
    \/ \E i \in 1..Len(retLog) : retLog[i].op = "auflisten" /\ ~retLog[i].ok
    \/ \E i \in 1..Len(genLog) : generate_content(genLog[i].ausgabe) = "raise"

\* C13: antwort_generieren returns, whatever fails inside the turn, a result
\* with text, sources, tools_used and success; after an internal error the
\* result has success = false, no sources and no tools.
C13_ImmerEinErgebnis ==
    pc \in {"done", "ende"} =>
        /\ {"antwort", "quellen", "verwendete_tools", "success"} \subseteq DOMAIN result
        /\ InternerFehler => ~result.success
        /\ ~result.success => result.quellen = <<>> /\ result.verwendete_tools = <<>>

\* the listing inside _braucht_dokumentensuche raised and the turn returned
\* the error result
C13_Witness ==
    /\ pc = "done" /\ ~result.success
    /\ retLog # <<>> /\ ~retLog[Len(retLog)].ok
    /\ result.quellen = <<>>


\* C14: no generation request is built while a model switch is in progress;
\* every request carries the fully set active model.
C14_WechselSerialisiert ==
    \A i \in 1..Len(genLog) :
        /\ ~genLog[i].im_wechsel
        /\ genLog[i].model = genLog[i].handler_model


\* the type of the chunker's state
ChunkTyp == ipc \in {"bereit", "fertig"} /\ (ipc = "bereit" => chunks = <<>>)


\* the paragraphs of a text the chunker looks at: stripped and not empty
Absaetze(t) ==
    SelectSeq([i \in 1..Len(SplitAbsaetze(t)) |-> strip(SplitAbsaetze(t)[i])],
              LAMBDA a : a # <<>>)

Anzahl(f, Test(_)) == Cardinality({i \in 1..Len(f) : Test(f[i])})

\* C15: every chunk is shorter than chunk_groesse, but for at most one chunk
\* per paragraph that is itself longer than chunk_groesse; so there are no
\* more chunks of chunk_groesse characters or more than such paragraphs.
C15_ChunkKleinerAlsGroesse ==
    ipc = "fertig" =>
        Anzahl(chunks, LAMBDA c : Len(c) >= chunk_groesse)
            <= Anzahl(Absaetze(text), LAMBDA a : Len(a) > chunk_groesse)


\* the chunks one after the other, in index order
Verkettet(cs) ==
    LET F[i \in 0..Len(cs)] == IF i = 0 THEN <<>> ELSE F[i - 1] \o cs[i]
    IN F[Len(cs)]

\* a text without its whitespace
OhneLeerraum(s) == SelectSeq(s, LAMBDA c : c \notin Leerraum)

\* C16: the chunks in index order give, whitespace apart, the text: no other
\* character is dropped, added, changed or duplicated.
C16_ChunksErgebenText ==
    ipc = "fertig" => OhneLeerraum(Verkettet(chunks)) = OhneLeerraum(text)


\* C17: text_chunken returns at least one chunk, none of them empty or
\* whitespace only, but for a text that is empty or whitespace only, which
\* gives the one empty chunk.
C17_KeinLeererChunk ==
    ipc = "fertig" =>
        /\ Len(chunks) >= 1
        /\ IF strip(text) = <<>> THEN chunks = << <<>> >>
           ELSE \A i \in 1..Len(chunks) : strip(chunks[i]) # <<>>


\* the paragraphs A[1..k] joined by blank lines
Verbunden(A, k) ==
    LET F[i \in 1..k] ==
          IF i = 1 THEN A[1] ELSE F[i - 1] \o <<"\n", "\n">> \o A[i]
    IN F[k]

\* Greedy accumulation stated on the list of paragraphs: a chunk is the
\* longest run of paragraphs in which each further paragraph fits, i.e.
\* len(buffer) + len(paragraph) + zuschlag < g, the buffer being the run so
\* far with the blank line after it; a paragraph longer than g that opens a
\* run is split at its sentence marks instead.
RECURSIVE Gierig(_, _, _)
Gierig(A, g, zuschlag) ==
    IF A = <<>> THEN <<>>
    ELSE IF Len(A[1]) > g
    THEN _langen_text_aufteilen(A[1], g) \o Gierig(Tail(A), g, zuschlag)
    ELSE LET K == {k \in 1..Len(A) :
                     \A j \in 2..k :
                        Len(Verbunden(A, j - 1)) + 2 + Len(A[j]) + zuschlag < g}
             k == CHOOSE k \in K : \A j \in K : j <= k
         IN <<Verbunden(A, k)>> \o Gierig(SubSeq(A, k + 1, Len(A)), g, zuschlag)

GierigeChunks(t, g, zuschlag) ==
    IF Gierig(Absaetze(t), g, zuschlag) = <<>> THEN << <<>> >>
    ELSE Gierig(Absaetze(t), g, zuschlag)

\* C18 as stated: the chunks are those of greedy accumulation with the test
\* len(buffer) + len(paragraph) < max_size.
C18_GierigOhneZuschlag == ipc = "fertig" => chunks = GierigeChunks(text, chunk_groesse, 0)

\* C18 amended: the test is len(buffer) + len(paragraph) + 2 < max_size, the
\* buffer counted with the blank line after its last paragraph.
C18_GierigMitZuschlag == ipc = "fertig" => chunks = GierigeChunks(text, chunk_groesse, 2)

\* "a", blank line, "a" under chunk_groesse 6: 3 + 1 < 6 but 3 + 1 + 2 = 6, so
\* the second paragraph starts a chunk of its own
C18_Witness ==
    /\ ipc = "fertig" /\ chunk_groesse = 6
    /\ text = <<"a", "\n", "\n", "a">>
    /\ chunks = << <<"a">>, <<"a">> >>


PdfLief == pdfLast.aufrufe >= 1

\* C19: when extraction reports ocr_used, the text returned is the OCR text
\* and it is, trimmed, strictly longer than the direct text; on a tie or a
\* shorter OCR text the direct text is returned with ocr_used = false.
C19_OcrNurWennLaenger ==
    PdfLief =>
        LET e == pdfLast.ergebnis
        IN /\ e.ocr_used =>
                 /\ e.text.quelle = "ocr"
                 /\ e.text.getrimmt = e.ocr_getrimmt
                 /\ e.ocr_getrimmt > pdfLast.direkt
           /\ (e.ocr_lief /\ e.ocr_getrimmt <= pdfLast.direkt) =>
                 /\ ~e.ocr_used
                 /\ e.text = [quelle |-> "direkt", getrimmt |-> pdfLast.direkt]

\* a tie: 50 characters extracted, 50 recognised, the direct text is returned
C19_Witness ==
    /\ PdfLief /\ pdfLast.direkt = 50
    /\ pdfLast.ergebnis.ocr_lief /\ pdfLast.ergebnis.ocr_getrimmt = 50
    /\ ~pdfLast.ergebnis.ocr_used

\* C20: when the OCR pass fails, in the rendering or on any page, no error
\* leaves the extraction and the result is the direct text with
\* ocr_used = false.
C20_OcrFehlerFaelltZurueck ==
    (PdfLief /\ pdfLast.ergebnis.ocr_lief /\ pdfLast.ocr_fehler) =>
        /\ ~pdfLast.ergebnis.raised
        /\ ~pdfLast.ergebnis.ocr_used
        /\ pdfLast.ergebnis.text = [quelle |-> "direkt", getrimmt |-> pdfLast.direkt]

\* the OCR pass ran on a PDF without direct text and failed
C20_Witness ==
    /\ PdfLief /\ pdfLast.direkt = 0
    /\ pdfLast.ergebnis.ocr_lief /\ pdfLast.ocr_fehler
    /\ ~pdfLast.ergebnis.ocr_used



-----------------------------------------------------------------------------
(* Properties of the ingestion *)

\* dokument_verarbeiten was called
VerarbeitungLief == verarbeitung # KeineVerarbeitung

\* the spellings of the three supported extensions
PdfErweiterungen == {<<".", "p", "d", "f">>, <<".", "P", "D", "F">>}
DocxErweiterungen == {<<".", "d", "o", "c", "x">>, <<".", "D", "o", "c", "X">>}
TxtErweiterungen == {<<".", "t", "x", "t">>, <<".", "T", "X", "T">>}

\* C21: text_extrahieren runs the extractor that the extension names, in any
\* spelling of upper and lower case and whatever the file holds, and for
\* every other extension raises the unsupported-format error with no
\* extractor run.
C21_ExtraktorNachErweiterung ==
    VerarbeitungLief =>
      LET e == verarbeitung.datei.erweiterung
          x == verarbeitung.extraktion
      IN /\ e \in PdfErweiterungen =>
              ~x.raised /\ x.extraktor = "pdf_verarbeiten"
         /\ e \in DocxErweiterungen =>
              ~x.raised /\ x.extraktor = "docx_text_extrahieren"
         /\ e \in TxtErweiterungen =>
              ~x.raised /\ x.extraktor = "txt_text_extrahieren"
         /\ e \notin PdfErweiterungen \cup DocxErweiterungen \cup TxtErweiterungen =>
              /\ x.raised /\ x.extraktor = None
              /\ verarbeitung.ergebnis.fehler = "ValueError"

\* a plain-text file named .PDF went to the PDF extractor
C21_Witness ==
    /\ VerarbeitungLief
    /\ verarbeitung.datei.erweiterung = <<".", "P", "D", "F">>
    /\ verarbeitung.datei.inhalt.art = "txt"
    /\ verarbeitung.extraktion.extraktor = "pdf_verarbeiten"

\* C22: dokument_verarbeiten returns a result for every file and raises
\* nothing, and when no text at all was extracted the result has
\* ocr_used = false and chunk_anzahl = 0.
C22_ImmerEinErgebnisObjekt ==
    VerarbeitungLief =>
      /\ ~verarbeitung.ergebnis.raised
      /\ verarbeitung.extraktion.text = <<>> =>
           /\ verarbeitung.ergebnis.ocr_used = FALSE
           /\ verarbeitung.ergebnis.chunk_anzahl = 0

\* C23: an exception inside a format's extractor stays inside it and makes
\* it return "", and a plain-text file is read as UTF-8 when its bytes are
\* UTF-8 and as Latin-1 only when they are not.
C23_ExtraktorFehlerGibtLeer ==
    VerarbeitungLief /\ ~verarbeitung.extraktion.raised =>
      LET x == verarbeitung.extraktion
          inhalt == verarbeitung.datei.inhalt
      IN /\ x.extrakt.fehler /\ x.encoding # "latin-1" => x.extrakt.text = <<>>
         /\ x.extraktor = "txt_text_extrahieren" /\ inhalt.art # "unlesbar" =>
              /\ x.encoding = "utf-8" <=> utf8(BytesVon(inhalt)).ok
              /\ x.encoding = "latin-1" <=> ~utf8(BytesVon(inhalt)).ok


-----------------------------------------------------------------------------
(* Properties of the chat history *)

\* the messages of a session in the order in which add_message stored them
InAnfuegeReihenfolge(sid) ==
    LET rows == SelectSeq(messages, LAMBDA z : z.session_id = sid)
    IN [j \in 1..Len(rows) |->
          [role |-> rows[j].role, content |-> rows[j].content,
           timestamp |-> rows[j].timestamp]]

\* the rows of the sessions other than sid
AndereZeilen(rows, sid) == SelectSeq(rows, LAMBDA z : z.session_id # sid)

\* C24: a delete_session(s) that returns true leaves no session s and no
\* message of s and changes no other session and none of their messages; a
\* delete_session of an unknown id returns false and changes nothing.
C24_LoeschenNimmtAlles ==
    [][\A sid \in SessionIds :
          delete_session(sid) =>
            IF sid \in sessions
            THEN /\ histLast'.ergebnis.gefunden
                 /\ sessions' = sessions \ {sid}
                 /\ \A i \in 1..Len(messages') : messages'[i].session_id # sid
                 /\ AndereZeilen(messages', sid) = AndereZeilen(messages, sid)
            ELSE /\ ~histLast'.ergebnis.gefunden
                 /\ sessions' = sessions
                 /\ messages' = messages]_vars

\* C25: get_session returns the messages of a session in the order in which
\* they were added, whatever the timestamps of the calls were, and
\* add_message leaves every earlier message in place.
C25_InReihenfolgeDesAnfuegens ==
    [][/\ \A sid \in SessionIds :
            GetSession(sid) /\ sid \in sessions =>
              histLast'.ergebnis.messages = InAnfuegeReihenfolge(sid)
       /\ \A sid \in SessionIds, role \in {"user", "assistant"} :
            AddMessage(sid, role) =>
              SubSeq(messages', 1, Len(messages)) = messages]_vars

\* C28: every stored message belongs to a stored session.
C28_KeineVerwaisteNachricht ==
    \A i \in 1..Len(messages) : messages[i].session_id \in sessions


-----------------------------------------------------------------------------
(* Properties of the model switch *)

\* the backend was available, listed the requested model, and the model
\* answered the test
WechselGeprueft ==
    /\ swLast.verfuegbar
    /\ swLast.model_name \in swLast.liste
    /\ swLast.verbunden
    /\ swLast.ausgabe \in ModellTexte

\* C26: a request to switch the model changes the handler's model only when
\* the backend is available, lists the requested name and the model passes
\* the test; after a response 503, 404 or 400 the model is what it was, and
\* after a successful switch handler.model and llm.model_name are both the
\* requested name.
C26_WechselNurNachPruefung ==
    swLast.status # 0 =>
      /\ (model # swLast.vorher.model
            \/ llm_model_name # swLast.vorher.llm_model_name) => WechselGeprueft
      /\ swLast.status \in {503, 404, 400} =>
           /\ model = swLast.vorher.model
           /\ llm_model_name = swLast.vorher.llm_model_name
      /\ swLast.status \notin {503, 404, 400} =>
           /\ swLast.status = 200
           /\ WechselGeprueft
           /\ model = swLast.model_name
           /\ llm_model_name = swLast.model_name

\* a request that switched the handler to another model
C26_Witness ==
    /\ swLast.status = 200
    /\ model # swLast.vorher.model
    /\ model = swLast.model_name


-----------------------------------------------------------------------------
(* Properties of the search with a target document *)

\* the search restricted to the target document ran and returned no hit
GezielteSucheLeer ==
    \E i \in 1..Len(retLog) :
       /\ retLog[i].op = "nach_dokument_suchen"
       /\ retLog[i].ok /\ retLog[i].treffer = 0

\* the search over all documents that followed it
FallbackSuchen ==
    {i \in 2..Len(retLog) :
       /\ retLog[i].op = "aehnliche_suchen"
       /\ retLog[i - 1].op = "nach_dokument_suchen"}

\* C27: when the search restricted to the target document returns no hit the
\* search is repeated over all documents, and when that search returns a hit
\* the turn ends with success = true in mode 'dokumentensuche', with an
\* answer generated from the hits and their documents as sources.
C27_FallbackMitTrefferAntwortet ==
    /\ (GezielteSucheLeer /\ pc \in {"done", "ende"}) => FallbackSuchen # {}
    /\ (pc \in {"done", "ende"} /\ GezielteSucheLeer
          /\ \E i \in FallbackSuchen : retLog[i].treffer > 0) =>
          /\ result.success
          /\ Modus(result) = "dokumentensuche"
          /\ result.quellen = Quellen(ergebnisse)
          /\ Len(genLog) = 1


-----------------------------------------------------------------------------
(* Properties of the tagged query and of the question for the documents *)

\* C29: for a query with a #name tag, every search of the turn is handed the
\* message with the tag removed, the cleaned message of
\* dokument_referenz_parsen, and the tag's name only as the target document.
C29_SucheOhneTag ==
    HatTag(query) =>
      \A i \in 1..Len(Suchen) :
         /\ Suchen[i].anfrage = dokument_referenz_parsen(query)[2]
         /\ ~HatTag(Suchen[i].anfrage)
         /\ Suchen[i].ziel \in {None, dokument_referenz_parsen(query)[1]}

\* step 5 of _braucht_dokumentensuche decided: the query has a phrase of its
\* list and no tag, no name of a document and no keyword of step 4
FrageNachDokumenten ==
    /\ intent = [art |-> "DOCUMENT_SEARCH", ziel |-> None]
    /\ ~HatTag(query)
    /\ ~\E kw \in dokument_keywords : Enthaelt(Klein(query), kw)
    /\ \E ph \in verfuegbar_phrasen : Enthaelt(Klein(query), ph)

\* C30: a query that step 5 of the classifier takes for a question about the
\* available documents is answered by the listing tool: tools_used is
\* ['dokumente_auflisten'], no search runs and no generation call is issued.
C30_FrageNachDokumentenListet ==
    (pc = "done" /\ FrageNachDokumenten) =>
      /\ result.verwendete_tools = <<"dokumente_auflisten">>
      /\ Suchen = <<>>
      /\ genLog = <<>>

=============================================================================
